---- MODULE Spec2Model ----
(***************************************************************************)
(* ghdownloader: the fan-out download orchestrator of the Downloader type. *)
(* Strings are sequences of one-character strings, so that splitting,      *)
(* containment and concatenation are computed and not assumed.             *)
(***************************************************************************)
EXTENDS Integers, Sequences, FiniteSets, TLC

\* ------------------------------------------------------------------ bounds
MaxRepos == 2      \* most repository tasks one call spawns
MaxCalls == 2      \* calls of DownloadLatestReleases on one Downloader
MaxIdLen == 4      \* longest identifier string given to parseUserRepo alone

\* ----------------------------------------------------------------- strings
Slash == "/"
Latest == <<"l", "a", "t", "e", "s", "t">>

RECURSIVE SplitFrom(_, _, _)
\* strings.Split(s, sep) for a one-character sep: cur is the segment being read
SplitFrom(s, sep, cur) ==
    IF s = <<>> THEN <<cur>>
    ELSE IF Head(s) = sep THEN <<cur>> \o SplitFrom(Tail(s), sep, <<>>)
    ELSE SplitFrom(Tail(s), sep, Append(cur, Head(s)))

Split(s, sep) == SplitFrom(s, sep, <<>>)

\* strings.Contains(s, sub)
Contains(s, sub) ==
    \E i \in 1..(Len(s) + 1) :
        /\ i + Len(sub) - 1 <= Len(s)
        /\ SubSeq(s, i, i + Len(sub) - 1) = sub

\* ------------------------------------------------------------ parseUserRepo
parseUserRepo(userRepo) ==
    LET parts == Split(userRepo, Slash)
    IN  IF Len(parts) /= 2
        THEN [ok |-> FALSE, owner |-> <<>>, repo |-> <<>>]
        ELSE [ok |-> TRUE, owner |-> parts[1], repo |-> parts[2]]

\* ------------------------------------------------- releases, assets, filter
\* what the forge can answer to GetLatestRelease
A1 == [name |-> <<"t", "l">>, url |-> <<"u">>]
A2 == [name |-> <<"t", "d">>, url |-> <<"u">>]
A3 == [name |-> <<"t", "d">>, url |-> <<>>]

Rel(e, d, p, t, as) ==
    [err |-> e, draft |-> d, pre |-> p, tag |-> t, assets |-> as]

NoRelease == Rel(TRUE, FALSE, FALSE, <<>>, <<>>)

\* the answers the tasks of one fan-out get: a failed lookup, a draft, a
\* prerelease, a release without assets, and tagged releases with assets
FanReleases ==
    {NoRelease,
     Rel(FALSE, TRUE, FALSE, <<"v">>, <<A1, A2>>),
     Rel(FALSE, FALSE, TRUE, <<"v">>, <<A1, A2>>),
     Rel(FALSE, FALSE, FALSE, <<"v">>, <<>>),
     Rel(FALSE, FALSE, FALSE, <<"v">>, <<A1, A2>>),
     Rel(FALSE, FALSE, FALSE, <<"v">>, <<A3, A1>>)}

\* the fewest answers that make a task fail, or end with or without a path
FewReleases ==
    {NoRelease,
     Rel(FALSE, TRUE, FALSE, <<"v">>, <<A1>>),
     Rel(FALSE, FALSE, TRUE, <<"v">>, <<A1>>),
     Rel(FALSE, FALSE, FALSE, <<"v">>, <<>>),
     Rel(FALSE, FALSE, FALSE, <<"v">>, <<A1>>)}

\* with the untagged release and the release tagged "latest" as well
Releases ==
    FanReleases
    \cup {Rel(FALSE, FALSE, FALSE, <<>>, <<A1, A2>>),
          Rel(FALSE, FALSE, FALSE, Latest, <<A1>>)}

Filters == {<<>>, <<"l">>}

\* the identifier lists of the calls: identifiers that parse, then possibly
\* one that does not (what follows it is never read)
GoodIds == {<<"a", "/", "r">>, <<"b", "/", "r">>}
BadIds == {<<"r">>}
RepoIds == GoodIds \cup BadIds

RECURSIVE SeqsUpTo(_, _)
SeqsUpTo(S, n) ==
    IF n = 0 THEN {<<>>}
    ELSE LET shorter == SeqsUpTo(S, n - 1)
         IN  shorter \cup {Append(s, x) : s \in {q \in shorter : Len(q) = n - 1}, x \in S}

RepoLists ==
    SeqsUpTo(GoodIds, MaxRepos)
    \cup {Append(g, b) : g \in SeqsUpTo(GoodIds, MaxRepos), b \in BadIds}
OneRepoLists == {<<id>> : id \in RepoIds}

\* release.GetDraft() || release.GetPrerelease(), len(release.Assets) == 0
ReleaseError(rel) ==
    IF rel.err THEN "fetch"
    ELSE IF rel.draft \/ rel.pre THEN "draft"
    ELSE IF rel.assets = <<>> THEN "noassets"
    ELSE "nil"

\* forceDownload: true only for an empty tag
ForceByDirName(tag) == tag = <<>> \/ tag = Latest

ForceDownload(tag) == tag = <<>>

\* dirName = fmt.Sprintf("%s-%s", repo, tag), tag replaced by "latest" if empty
DirName(repo, tag) ==
    repo \o <<"-">> \o (IF tag = <<>> THEN Latest ELSE tag)

\* filePath = filepath.Join(versionDir, fileName), below destDir
FilePath(dir, asset) == <<dir, asset.name>>

FilterAll(filter, asset) == TRUE

\* d.matchFilter != "" && !strings.Contains(asset.GetName(), d.matchFilter)
FilterKeeps(filter, asset) ==
    ~(filter /= <<>> /\ ~Contains(asset.name, filter))

\* ------------------------------------------------------------------- HTTP
\* what the two servers and the local disk can answer during one transfer
\* urlOk: http.NewRequest accepts the API URL; err1, st1, loc: the first
\* exchange; loc = ":" is a Location http.NewRequest rejects; err2, st2: the
\* second exchange; cpErr: io.Copy fails
Http(u, e1, s1, l, e2, s2, c) ==
    [urlOk |-> u, err1 |-> e1, st1 |-> s1, loc |-> l, err2 |-> e2, st2 |-> s2,
     cpErr |-> c]

HttpEnvs ==
    {Http(TRUE, FALSE, 302, <<"c">>, FALSE, 200, FALSE),
     Http(FALSE, FALSE, 0, <<>>, FALSE, 0, FALSE),
     Http(TRUE, TRUE, 0, <<>>, FALSE, 0, FALSE),
     Http(TRUE, FALSE, 200, <<"c">>, FALSE, 0, FALSE),
     Http(TRUE, FALSE, 404, <<>>, FALSE, 0, FALSE),
     Http(TRUE, FALSE, 302, <<>>, FALSE, 0, FALSE),
     Http(TRUE, FALSE, 302, <<":">>, FALSE, 0, FALSE),
     Http(TRUE, FALSE, 302, <<"c">>, TRUE, 0, FALSE),
     Http(TRUE, FALSE, 302, <<"c">>, FALSE, 206, FALSE),
     Http(TRUE, FALSE, 302, <<"c">>, FALSE, 404, FALSE),
     Http(TRUE, FALSE, 302, <<"c">>, FALSE, 200, TRUE)}

FewHttpEnvs ==
    {Http(TRUE, FALSE, 302, <<"c">>, FALSE, 200, FALSE),
     Http(TRUE, FALSE, 404, <<>>, FALSE, 0, FALSE)}

\* no transfer under study
NoHttp == Http(FALSE, FALSE, 0, <<>>, FALSE, 0, FALSE)

\* every answer of the two servers and of the disk, statuses by class
AllHttp ==
    {Http(TRUE, e1, s1, l, e2, s2, c) :
        e1 \in BOOLEAN, s1 \in {200, 204, 301, 302, 404},
        l \in {<<>>, <<"c">>, <<":">>}, e2 \in BOOLEAN,
        s2 \in {200, 201, 204, 206, 299, 302, 404, 500}, c \in BOOLEAN}

FetchOutcome2xx(h) ==
    IF ~h.urlOk THEN "newrequest1"
    ELSE IF h.err1 THEN "transport1"
    ELSE IF h.st1 /= 302 THEN "status1"
    ELSE IF h.loc = <<>> THEN "nolocation"
    ELSE IF h.loc = <<":">> THEN "newrequest2"
    ELSE IF h.err2 THEN "transport2"
    ELSE IF h.st2 \notin 200..299 THEN "status2"
    ELSE IF h.cpErr THEN "write"
    ELSE "ok"

\* downloadAsset from the first request to io.Copy: the error it returns
FetchOutcome(h) ==
    IF ~h.urlOk THEN "newrequest1"
    ELSE IF h.err1 THEN "transport1"
    ELSE IF h.st1 /= 302 THEN "status1"
    ELSE IF h.loc = <<>> THEN "nolocation"
    ELSE IF h.loc = <<":">> THEN "newrequest2"
    ELSE IF h.err2 THEN "transport2"
    ELSE IF h.st2 /= 200 THEN "status2"
    ELSE IF h.cpErr THEN "write"
    ELSE "ok"

\* ------------------------------------------------------------------ state
VARIABLES
    matchFilter,  \* d.matchFilter
    pc,           \* where the caller of DownloadLatestReleases is
    callNo,       \* calls started so far on this Downloader
    userRepos,    \* the argument of the current call
    i,            \* index of the range loop over userRepos
    wg,           \* d.wg counter
    tasks,        \* the goroutines spawned so far, in spawn order
    chans,        \* errChan of each call: buffer, capacity, closed
    ret,          \* what the last call returned
    binPaths,     \* d.binPaths
    mu,           \* d.mu: 0 when free, else the task holding it
    files,        \* the files below destDir: path -> content
    dirs,         \* the directories created below (and including) destDir
    log,          \* history: what each task did to each asset
    pin,          \* argument of a lone parseUserRepo
    pout,         \* its result
    hin           \* the answers met by the transfers of a run under study

vars == <<matchFilter, pc, callNo, userRepos, i, wg, tasks, chans, ret,
          binPaths, mu, files, dirs, log, pin, pout, hin>>

NilErr == [kind |-> "nil", id |-> <<>>, entries |-> <<>>]
NoRet == [call |-> 0, paths |-> <<>>, err |-> NilErr]
NoParse == [ok |-> FALSE, owner |-> <<"?">>, repo |-> <<"?">>]
Root == <<>>

TaskIds == 1..Len(tasks)

\* New(token, destDir)
Init ==
    /\ matchFilter = <<>>
    /\ pc = "idle"
    /\ callNo = 0
    /\ userRepos = <<>>
    /\ i = 1
    /\ wg = 0
    /\ tasks = <<>>
    /\ chans = <<>>
    /\ ret = NoRet
    /\ binPaths = <<>>
    /\ mu = 0
    /\ files = <<>>
    /\ dirs = {}
    /\ log = {}
    /\ pin = <<>>
    /\ pout = NoParse
    /\ hin = NoHttp

Ended(t) == tasks[t].pc = "done"

\* SetMatchFilter(match), called before the first call as cmd/main.go does
SetMatchFilter(match) ==
    /\ pc = "idle"
    /\ matchFilter /= match
    /\ matchFilter' = match
    /\ UNCHANGED <<pc, callNo, userRepos, i, wg, tasks, chans, ret, binPaths,
                   mu, files, dirs, log, pin, pout, hin>>

\* ------------------------------------------------- DownloadLatestReleases
\* errChan := make(chan error, len(userRepos))
ChanCapOneLess(repos) == Len(repos) - 1

ChanCap(repos) == Len(repos)

NewTask(c, p) ==
    [call |-> c, owner |-> p.owner, repo |-> p.repo, pc |-> "start",
     rel |-> NoRelease, force |-> FALSE, dir |-> <<>>, k |-> 0,
     err |-> "nil", snap |-> <<>>]

\* a goroutine that ended during an earlier call, and the channel of a call
\* none of whose goroutines is left: garbage, kept only to keep the numbering
Retired == [NewTask(0, [owner |-> <<>>, repo |-> <<>>]) EXCEPT !.pc = "done"]
NoChan == [buf |-> <<>>, cap |-> 0, closed |-> TRUE]
Collected(c) == \A t \in TaskIds : tasks[t].call = c => Ended(t)

\* entry: os.MkdirAll(d.destDir) and make(errChan)
Call(repos, mkOk) ==
    /\ pc \in {"idle", "returned"}
    /\ callNo < MaxCalls
    /\ callNo' = callNo + 1
    /\ userRepos' = repos
    /\ i' = 1
    /\ tasks' = [t \in TaskIds |-> IF Ended(t) THEN Retired ELSE tasks[t]]
    /\ log' = {e \in log : ~Ended(e[2])}
    /\ LET old == [c \in 1..callNo |-> IF Collected(c) THEN NoChan ELSE chans[c]]
       IN  IF mkOk
           THEN /\ dirs' = dirs \cup {Root}
                /\ chans' = Append(old, [buf |-> <<>>, cap |-> ChanCap(repos),
                                         closed |-> FALSE])
                /\ pc' = "loop"
                /\ ret' = NoRet
           ELSE /\ dirs' = dirs
                /\ chans' = Append(old, NoChan)
                /\ pc' = "returned"
                /\ ret' = [call |-> callNo + 1, paths |-> <<>>,
                           err |-> [kind |-> "mkroot", id |-> <<>>, entries |-> <<>>]]
    /\ UNCHANGED <<matchFilter, wg, binPaths, mu, files, pin, pout, hin>>

\* one iteration of the range loop: parse, then d.wg.Add(1) and go func
Spawn ==
    /\ pc = "loop"
    /\ i <= Len(userRepos)
    /\ LET p == parseUserRepo(userRepos[i])
       IN  IF p.ok
           THEN /\ wg' = wg + 1
                /\ tasks' = Append(tasks, NewTask(callNo, p))
                /\ i' = i + 1
                /\ UNCHANGED <<pc, ret>>
           ELSE /\ pc' = "returned"
                /\ ret' = [call |-> callNo, paths |-> <<>>,
                           err |-> [kind |-> "invalid", id |-> userRepos[i],
                                    entries |-> <<>>]]
                /\ UNCHANGED <<wg, tasks, i>>
    /\ UNCHANGED <<matchFilter, callNo, userRepos, chans, binPaths, mu, files,
                   dirs, log, pin, pout, hin>>

WaitReturnsAtOnce(w) == TRUE

\* d.wg.Wait() returns
WaitReturns(w) == w = 0

Wait ==
    /\ pc = "loop"
    /\ i > Len(userRepos)
    /\ WaitReturns(wg)
    /\ pc' = "close"
    /\ UNCHANGED <<matchFilter, callNo, userRepos, i, wg, tasks, chans, ret,
                   binPaths, mu, files, dirs, log, pin, pout, hin>>

\* close(errChan), range over it, return d.binPaths with the joined errors
CloseCollect ==
    /\ pc = "close"
    /\ chans' = [chans EXCEPT ![callNo].closed = TRUE]
    /\ LET errs == chans[callNo].buf
       IN  ret' = [call |-> callNo, paths |-> binPaths,
                   err |-> IF Len(errs) > 0
                           THEN [kind |-> "errors", id |-> <<>>, entries |-> errs]
                           ELSE NilErr]
    /\ pc' = "returned"
    /\ UNCHANGED <<matchFilter, callNo, userRepos, i, wg, tasks, binPaths, mu,
                   files, dirs, log, pin, pout, hin>>

\* ------------------------------------------------- downloadLatestRelease
Asset(t) == tasks[t].rel.assets[tasks[t].k]
Path(t) == FilePath(tasks[t].dir, Asset(t))
Ev(kind, t) == <<kind, t, tasks[t].k>>

\* GetLatestRelease, the draft / prerelease / no-assets policy, the directory
TaskResolve(t, rel, mkOk) ==
    /\ tasks[t].pc = "start"
    /\ LET e == ReleaseError(rel)
           dir == DirName(tasks[t].repo, rel.tag)
       IN  IF e /= "nil"
           THEN /\ mkOk
                /\ tasks' = [tasks EXCEPT ![t].rel = rel, ![t].err = e,
                                          ![t].pc = "report"]
                /\ dirs' = dirs
           ELSE IF ~mkOk
           THEN /\ tasks' = [tasks EXCEPT ![t].rel = rel, ![t].err = "mkdir",
                                          ![t].force = ForceDownload(rel.tag),
                                          ![t].dir = dir, ![t].pc = "report"]
                /\ dirs' = dirs
           ELSE /\ tasks' = [tasks EXCEPT ![t].rel = rel,
                                          ![t].force = ForceDownload(rel.tag),
                                          ![t].dir = dir, ![t].k = 1,
                                          ![t].pc = "asset"]
                /\ dirs' = dirs \cup {dir}
    /\ log' = log \cup {<<"lookup", t, 0>>}
                   \cup (IF mkOk THEN {} ELSE {<<"mkdirfail", t, 0>>})
    /\ UNCHANGED <<matchFilter, pc, callNo, userRepos, i, wg, chans, ret,
                   binPaths, mu, files, pin, pout, hin>>

NextAsset(t) == [tasks EXCEPT ![t].k = @ + 1, ![t].pc = "asset"]

Escalated(t) == [tasks EXCEPT ![t].err = "asset", ![t].pc = "report"]

\* downloadAsset returned an error: a warning is printed, the loop goes on
Warned(t) == NextAsset(t)

SkipIfExists(force, exists) == exists

\* !forceDownload and os.Stat(filePath) without error
SkipDownload(force, exists) == ~force /\ exists

\* the head of the asset loop, and downloadAsset up to os.Stat
TaskAsset(t) ==
    /\ tasks[t].pc = "asset"
    /\ IF tasks[t].k > Len(tasks[t].rel.assets)
       THEN /\ tasks' = [tasks EXCEPT ![t].pc = "report"]
            /\ log' = log
       ELSE IF ~FilterKeeps(matchFilter, Asset(t))
       THEN /\ tasks' = NextAsset(t)
            /\ log' = log \cup {Ev("skip", t)}
       ELSE LET seen == {Ev("attempt", t)}
                        \cup (IF Path(t) \in DOMAIN files
                              THEN {Ev("present", t)} ELSE {})
                        \cup (IF tasks[t].force THEN {Ev("force", t)} ELSE {})
            IN  IF Asset(t).url = <<>>
                THEN /\ tasks' = Warned(t)
                     /\ log' = log \cup seen \cup {Ev("warn", t)}
                ELSE IF SkipDownload(tasks[t].force, Path(t) \in DOMAIN files)
                THEN /\ tasks' = [tasks EXCEPT ![t].pc = "lock"]
                     /\ log' = log \cup seen \cup {Ev("exists", t)}
                ELSE /\ tasks' = [tasks EXCEPT ![t].pc = "create"]
                     /\ log' = log \cup seen
    /\ UNCHANGED <<matchFilter, pc, callNo, userRepos, i, wg, chans, ret,
                   binPaths, mu, files, dirs, pin, pout, hin>>

Put(f, p, v) == [q \in DOMAIN f \cup {p} |-> IF q = p THEN v ELSE f[q]]

\* os.Create(filePath): truncates an existing file
TaskCreate(t, ok) ==
    /\ tasks[t].pc = "create"
    /\ IF ok
       THEN /\ files' = Put(files, Path(t), [st |-> "empty", by |-> t])
            /\ tasks' = [tasks EXCEPT ![t].pc = "fetch"]
            /\ log' = log \cup {Ev("create", t)}
       ELSE /\ files' = files
            /\ tasks' = Warned(t)
            /\ log' = log \cup {Ev("warn", t)}
    /\ UNCHANGED <<matchFilter, pc, callNo, userRepos, i, wg, chans, ret,
                   binPaths, mu, dirs, pin, pout, hin>>

\* the two requests and io.Copy
TaskFetch(t, h) ==
    /\ tasks[t].pc = "fetch"
    /\ LET out == FetchOutcome(h)
           sent == IF out = "newrequest1" THEN {Ev("badurl", t)}
                   ELSE {Ev("request", t)}
       IN  IF out = "ok"
           THEN /\ files' = Put(files, Path(t), [st |-> "full", by |-> t])
                /\ tasks' = [tasks EXCEPT ![t].pc = "lock"]
                /\ log' = log \cup sent \cup {Ev("write", t)}
           ELSE IF out = "write"
           THEN /\ files' = Put(files, Path(t), [st |-> "partial", by |-> t])
                /\ tasks' = Warned(t)
                /\ log' = log \cup sent \cup {Ev("write", t), Ev("warn", t)}
           ELSE /\ files' = files
                /\ tasks' = Warned(t)
                /\ log' = log \cup sent \cup {Ev("warn", t)}
    /\ UNCHANGED <<matchFilter, pc, callNo, userRepos, i, wg, chans, ret,
                   binPaths, mu, dirs, pin, pout, hin>>

\* d.mu.Lock() and the read of d.binPaths
TaskLock(t) ==
    /\ tasks[t].pc = "lock"
    /\ mu = 0
    /\ mu' = t
    /\ tasks' = [tasks EXCEPT ![t].snap = binPaths, ![t].pc = "append"]
    /\ UNCHANGED <<matchFilter, pc, callNo, userRepos, i, wg, chans, ret,
                   binPaths, files, dirs, log, pin, pout, hin>>

\* d.binPaths = append(d.binPaths, filePath) and d.mu.Unlock()
TaskAppend(t) ==
    /\ tasks[t].pc = "append"
    /\ binPaths' = Append(tasks[t].snap, Path(t))
    /\ mu' = 0
    /\ tasks' = [NextAsset(t) EXCEPT ![t].snap = <<>>]
    /\ log' = log \cup {Ev("append", t)}
    /\ UNCHANGED <<matchFilter, pc, callNo, userRepos, i, wg, chans, ret,
                   files, dirs, pin, pout, hin>>

\* the goroutine's end: errChan <- err if any, then the deferred d.wg.Done()
TaskReport(t) ==
    /\ tasks[t].pc = "report"
    /\ LET c == tasks[t].call
       IN  IF tasks[t].err = "nil"
           THEN /\ chans' = chans
                /\ wg' = wg - 1
                /\ tasks' = [tasks EXCEPT ![t].pc = "done"]
           ELSE IF chans[c].closed
           THEN /\ chans' = chans
                /\ wg' = wg - 1
                /\ tasks' = [tasks EXCEPT ![t].pc = "panic"]
           ELSE /\ Len(chans[c].buf) < chans[c].cap
                /\ chans' = [chans EXCEPT ![c].buf =
                               Append(@, <<tasks[t].owner, tasks[t].repo, tasks[t].err>>)]
                /\ wg' = wg - 1
                /\ tasks' = [tasks EXCEPT ![t].pc = "done"]
    /\ UNCHANGED <<matchFilter, pc, callNo, userRepos, i, ret, binPaths, mu,
                   files, dirs, log, pin, pout, hin>>

\* the first call on a new Downloader
FirstCall(repos, mkOk) ==
    /\ pc = "idle"
    /\ Call(repos, mkOk)

Next ==
    \/ \E match \in Filters : SetMatchFilter(match)
    \/ \E repos \in RepoLists, mkOk \in BOOLEAN : FirstCall(repos, mkOk)
    \/ Spawn
    \/ Wait
    \/ CloseCollect
    \/ \E t \in TaskIds, rel \in FanReleases, mkOk \in BOOLEAN :
            TaskResolve(t, rel, mkOk)
    \/ \E t \in TaskIds : TaskAsset(t)
    \/ \E t \in TaskIds, ok \in BOOLEAN : TaskCreate(t, ok)
    \/ \E t \in TaskIds, h \in HttpEnvs : TaskFetch(t, h)
    \/ \E t \in TaskIds : TaskLock(t)
    \/ \E t \in TaskIds : TaskAppend(t)
    \/ \E t \in TaskIds : TaskReport(t)

\* one call with a list of identifiers: the fan-out
Spec == Init /\ [][Next]_vars

NextFan ==
    \/ \E repos \in RepoLists, mkOk \in BOOLEAN : FirstCall(repos, mkOk)
    \/ Spawn
    \/ Wait
    \/ CloseCollect
    \/ \E t \in TaskIds, rel \in FewReleases, mkOk \in BOOLEAN :
            TaskResolve(t, rel, mkOk)
    \/ \E t \in TaskIds : TaskAsset(t)
    \/ \E t \in TaskIds : TaskCreate(t, TRUE)
    \/ \E t \in TaskIds, h \in FewHttpEnvs : TaskFetch(t, h)
    \/ \E t \in TaskIds : TaskLock(t)
    \/ \E t \in TaskIds : TaskAppend(t)
    \/ \E t \in TaskIds : TaskReport(t)

\* the fan-out again, with the fewest answers of the forge and of the disk
SpecFan == Init /\ [][NextFan]_vars

NextRuns ==
    \/ \E match \in Filters : SetMatchFilter(match)
    \/ \E repos \in OneRepoLists, mkOk \in BOOLEAN : Call(repos, mkOk)
    \/ Spawn
    \/ Wait
    \/ CloseCollect
    \/ \E t \in TaskIds, rel \in Releases, mkOk \in BOOLEAN :
            TaskResolve(t, rel, mkOk)
    \/ \E t \in TaskIds : TaskAsset(t)
    \/ \E t \in TaskIds, ok \in BOOLEAN : TaskCreate(t, ok)
    \/ \E t \in TaskIds, h \in HttpEnvs : TaskFetch(t, h)
    \/ \E t \in TaskIds : TaskLock(t)
    \/ \E t \in TaskIds : TaskAppend(t)
    \/ \E t \in TaskIds : TaskReport(t)

\* successive calls on one Downloader and one disk, one identifier each
SpecRuns == Init /\ [][NextRuns]_vars

\* ------------------------------------------------ the transfer on its own
\* a Downloader whose transfers all meet the same answers
InitHttp ==
    /\ matchFilter = <<>>
    /\ pc = "idle"
    /\ callNo = 0
    /\ userRepos = <<>>
    /\ i = 1
    /\ wg = 0
    /\ tasks = <<>>
    /\ chans = <<>>
    /\ ret = NoRet
    /\ binPaths = <<>>
    /\ mu = 0
    /\ files = <<>>
    /\ dirs = {}
    /\ log = {}
    /\ pin = <<>>
    /\ pout = NoParse
    /\ hin \in AllHttp

HttpReleases ==
    {Rel(FALSE, FALSE, FALSE, <<"v">>, <<A1>>),
     Rel(FALSE, FALSE, FALSE, <<>>, <<A1>>)}

NextHttp ==
    \/ \E id \in GoodIds : Call(<<id>>, TRUE)
    \/ Spawn
    \/ Wait
    \/ CloseCollect
    \/ \E t \in TaskIds, rel \in HttpReleases : TaskResolve(t, rel, TRUE)
    \/ \E t \in TaskIds : TaskAsset(t)
    \/ \E t \in TaskIds : TaskCreate(t, TRUE)
    \/ \E t \in TaskIds : TaskFetch(t, hin)
    \/ \E t \in TaskIds : TaskLock(t)
    \/ \E t \in TaskIds : TaskAppend(t)
    \/ \E t \in TaskIds : TaskReport(t)

\* successive calls, one identifier and one asset each, under every answer
SpecHttp == InitHttp /\ [][NextHttp]_vars

\* ------------------------------------------------ parseUserRepo on its own
IdChars == {"a", "r", "/"}
Identifiers == SeqsUpTo(IdChars, MaxIdLen)

InitParse ==
    /\ matchFilter = <<>>
    /\ pc = "idle"
    /\ callNo = 0
    /\ userRepos = <<>>
    /\ i = 1
    /\ wg = 0
    /\ tasks = <<>>
    /\ chans = <<>>
    /\ ret = NoRet
    /\ binPaths = <<>>
    /\ mu = 0
    /\ files = <<>>
    /\ dirs = {}
    /\ log = {}
    /\ pin \in Identifiers
    /\ pout = NoParse
    /\ hin = NoHttp

Parse ==
    /\ pout = NoParse
    /\ pout' = parseUserRepo(pin)
    /\ UNCHANGED <<matchFilter, pc, callNo, userRepos, i, wg, tasks, chans, ret,
                   binPaths, mu, files, dirs, log, pin, hin>>

SpecParse == InitParse /\ [][Parse]_vars

\* ================================================================ claims
Mine == {t \in TaskIds : tasks[t].call = callNo}
Did(kind, t, k) == <<kind, t, k>> \in log
AssetsOf(t) == tasks[t].rel.assets
PathOf(t, k) == FilePath(tasks[t].dir, AssetsOf(t)[k])
Finished(t, k) == tasks[t].k > k \/ tasks[t].pc \in {"report", "done"}
InSeq(x, seq) == \E j \in 1..Len(seq) : seq[j] = x
Count(seq, x) == Cardinality({j \in 1..Len(seq) : seq[j] = x})
WellFormed == \A j \in 1..Len(userRepos) : parseUserRepo(userRepos[j]).ok
RootMade == ret.err.kind /= "mkroot"
Failed == {t \in Mine : tasks[t].err /= "nil"}
Entry(t) == <<tasks[t].owner, tasks[t].repo, tasks[t].err>>
Usable(t) == ReleaseError(tasks[t].rel) = "nil" /\ ~Did("mkdirfail", t, 0)
AssetKinds ==
    {"attempt", "create", "badurl", "request", "write", "append", "warn", "exists"}

\* C1: when the root was created and every identifier parses, the returned
\* error is nil exactly when no task reported an error; otherwise it holds one
\* entry for each failed task and no other, and d.binPaths comes with it.
C1_ErrorIffTaskFailed ==
    (pc = "returned" /\ RootMade /\ WellFormed) =>
        /\ (ret.err = NilErr) <=> (Failed = {})
        /\ Failed /= {} =>
            /\ ret.err.kind = "errors"
            /\ Len(ret.err.entries) = Cardinality(Failed)
            /\ \A t \in Failed :
                Count(ret.err.entries, Entry(t))
                    = Cardinality({u \in Failed : Entry(u) = Entry(t)})
        /\ ret.paths = binPaths
        /\ \A t \in Mine : \A k \in 1..Len(AssetsOf(t)) :
            Did("append", t, k) => InSeq(PathOf(t, k), ret.paths)

C1_Witness ==
    /\ pc = "returned"
    /\ WellFormed
    /\ Cardinality(Mine) = 2
    /\ Cardinality(Failed) = 1
    /\ ret.err.kind = "errors"
    /\ Len(ret.paths) > 0

\* C2 as claimed: with a malformed identifier anywhere in the list the call
\* returns the invalid-format error and no paths, and no task of the call has
\* looked up a release, created a directory or touched an asset.
C2_MalformedAbortsAll ==
    (pc = "returned" /\ RootMade /\ ~WellFormed) =>
        /\ ret.err.kind = "invalid"
        /\ ret.paths = <<>>
        /\ \A e \in log : e[2] \notin Mine
        /\ dirs \subseteq {Root}
        /\ files = <<>>

\* C3 as claimed: parseUserRepo succeeds exactly when the split on "/" gives
\* two segments that are both non-empty, and then returns them.
C3_TwoNonEmptySegments ==
    pout /= NoParse =>
        LET parts == Split(pin, Slash)
        IN  /\ pout.ok <=> (Len(parts) = 2 /\ parts[1] /= <<>> /\ parts[2] /= <<>>)
            /\ pout.ok => (pout.owner = parts[1] /\ pout.repo = parts[2])

\* C4 as claimed: for every asset handed to downloadAsset a request is issued
\* exactly when forceDownload is set or the target file is absent; an existing
\* file without force is left alone and recorded; with force the file is
\* always created anew and fetched again.
C4_RequestIffForcedOrAbsent ==
    \A t \in TaskIds : \A k \in 1..Len(AssetsOf(t)) :
        (Did("attempt", t, k) /\ Finished(t, k)) =>
            LET kept == ~Did("force", t, k) /\ Did("present", t, k)
            IN  /\ Did("request", t, k) <=> ~kept
                /\ kept => /\ ~Did("create", t, k)
                           /\ ~Did("write", t, k)
                           /\ Did("append", t, k)
                /\ Did("force", t, k) => Did("create", t, k)

\* C4, amended: the same for an asset that has an API URL, a request being
\* issued exactly when os.Create succeeded and http.NewRequest accepted the
\* URL, and a path recorded only after a request; an asset without API URL
\* fails before the file is looked at.
C4_RequestIffCreated ==
    \A t \in TaskIds : \A k \in 1..Len(AssetsOf(t)) :
        (Did("attempt", t, k) /\ Finished(t, k)) =>
            LET hasUrl == AssetsOf(t)[k].url /= <<>>
                kept == hasUrl /\ ~Did("force", t, k) /\ Did("present", t, k)
            IN  /\ kept => /\ ~Did("request", t, k)
                           /\ ~Did("create", t, k)
                           /\ ~Did("write", t, k)
                           /\ Did("append", t, k)
                           /\ InSeq(PathOf(t, k), binPaths)
                /\ ~hasUrl => /\ ~Did("request", t, k)
                              /\ ~Did("create", t, k)
                              /\ ~Did("append", t, k)
                              /\ Did("warn", t, k)
                /\ (hasUrl /\ ~kept) =>
                           /\ Did("request", t, k) <=>
                                (Did("create", t, k) /\ ~Did("badurl", t, k))
                           /\ Did("append", t, k) =>
                                (Did("request", t, k) /\ Did("write", t, k))
                           /\ Did("create", t, k) => PathOf(t, k) \in DOMAIN files

C4_Witness ==
    \E t \in TaskIds : \E k \in 1..Len(AssetsOf(t)) :
        /\ Finished(t, k)
        /\ Did("present", t, k)
        /\ ~Did("force", t, k)
        /\ Did("append", t, k)
        /\ ~Did("request", t, k)

C7_AssetFailureNotEscalated ==
    /\ \A t \in TaskIds : \A k \in 1..Len(AssetsOf(t)) :
        /\ Did("warn", t, k) => (tasks[t].err = "nil" /\ Finished(t, k))
        /\ (Usable(t) /\ Finished(t, k) /\ FilterKeeps(matchFilter, AssetsOf(t)[k]))
                => Did("attempt", t, k)
        /\ Did("attempt", t, k) =>
                \A j \in 1..(k - 1) :
                    FilterKeeps(matchFilter, AssetsOf(t)[j]) => Did("attempt", t, j)
    /\ \A t \in TaskIds :
        (Usable(t) /\ tasks[t].pc \in {"report", "done"}) =>
            (tasks[t].err = "nil" /\ tasks[t].k = Len(AssetsOf(t)) + 1)
    /\ (pc = "returned" /\ RootMade /\ WellFormed /\ \A t \in Mine : Usable(t)) =>
            /\ ret.err = NilErr
            /\ \A t \in Mine : Ended(t)

C7_Witness ==
    /\ pc = "returned"
    /\ ret.err = NilErr
    /\ \E t \in Mine : \E u \in Mine \ {t} :
        /\ Did("warn", t, 1)
        /\ Did("create", t, 1)
        /\ Did("attempt", t, 2)
        /\ Did("append", u, 1)
        /\ Did("append", u, 2)

\* C8 as claimed: a repository whose release cannot be fetched, is a draft or
\* a prerelease or has no assets reports one error and touches no asset; when
\* the call returns its siblings have ended and their paths are in the result.
Unusable(t) == tasks[t].pc /= "start" /\ ReleaseError(tasks[t].rel) /= "nil"

C8_FailedRepoIsolated ==
    \A t \in Mine :
        Unusable(t) =>
            /\ tasks[t].err /= "nil"
            /\ \A e \in log : e[2] = t => e[1] = "lookup"
            /\ Ended(t) => Count(chans[callNo].buf, Entry(t))
                             = Cardinality({u \in Mine : Ended(u) /\ Entry(u) = Entry(t)})
            /\ (pc = "returned" /\ RootMade) =>
                \A u \in Mine \ {t} :
                    /\ Ended(u)
                    /\ \A k \in 1..Len(AssetsOf(u)) :
                        Did("append", u, k) => InSeq(PathOf(u, k), ret.paths)

\* the same on the returns that follow d.wg.Wait()
C8_IsolatedAfterWait ==
    \A t \in Mine :
        Unusable(t) =>
            /\ tasks[t].err /= "nil"
            /\ \A e \in log : e[2] = t => e[1] = "lookup"
            /\ (pc = "returned" /\ RootMade /\ WellFormed) =>
                /\ Count(ret.err.entries, Entry(t))
                     = Cardinality({u \in Mine : Entry(u) = Entry(t)})
                /\ \A u \in Mine \ {t} :
                    /\ Ended(u)
                    /\ \A k \in 1..Len(AssetsOf(u)) :
                        Did("append", u, k) => InSeq(PathOf(u, k), ret.paths)

\* C9 as claimed: whenever DownloadLatestReleases has returned, every task it
\* spawned has ended.
C9_ReturnIsBarrier ==
    (pc = "returned" /\ RootMade) => \A t \in Mine : Ended(t)

\* C10: errChan has room for one error per identifier, every ended task that
\* failed has put exactly one error in it and no other task any, it is closed
\* only when all tasks have ended, no task about to report finds it full or
\* closed, and no more errors are collected than identifiers were given.
C10_ReportNeverBlocks ==
    (callNo > 0 /\ RootMade) =>
        LET ch == chans[callNo]
        IN  /\ ch.cap = Len(userRepos)
            /\ Len(ch.buf) = Cardinality({t \in Mine : Ended(t) /\ tasks[t].err /= "nil"})
            /\ ch.closed => \A t \in Mine : Ended(t)
            /\ \A t \in Mine :
                /\ tasks[t].pc /= "panic"
                /\ (tasks[t].pc = "report" /\ tasks[t].err /= "nil") =>
                        (~ch.closed /\ Len(ch.buf) < ch.cap)
            /\ Len(ret.err.entries) <= Len(userRepos)

C10_Witness ==
    /\ pc = "returned"
    /\ Cardinality(Mine) = MaxRepos
    /\ Len(chans[callNo].buf) = chans[callNo].cap
    /\ chans[callNo].closed
    /\ Len(ret.err.entries) = Len(userRepos)

\* C11 as claimed: when a call with well-formed identifiers returns, its path
\* list holds one entry for every asset one of its tasks recorded, each as
\* often as it was recorded, and nothing else (nothing of an earlier call).
Obtained == {e \in log : e[1] = "append" /\ e[2] \in Mine}

C11_ReturnedPathsExact ==
    (pc = "returned" /\ RootMade /\ WellFormed) =>
        /\ Len(ret.paths) = Cardinality(Obtained)
        /\ \A e \in Obtained :
            Count(ret.paths, PathOf(e[2], e[3]))
                = Cardinality({f \in Obtained : PathOf(f[2], f[3]) = PathOf(e[2], e[3])})

\* the same for the first call on a Downloader
C11_FirstCallExact == callNo = 1 => C11_ReturnedPathsExact

\* C12 as claimed: an asset for which the first request was sent is recorded
\* exactly when that request is answered 302 with a Location and the second
\* one is answered with a 2xx status; another first status is an unexpected
\* status, a second status outside 2xx an HTTP error, neither is recorded.
Sent(t, k) == Did("request", t, k) /\ Finished(t, k)
Redirected == ~hin.err1 /\ hin.st1 = 302 /\ hin.loc /= <<>>
\* the second request was built from the Location and answered
Followed == Redirected /\ hin.loc /= <<":">> /\ ~hin.err2

C12_RecordedIff2xx ==
    \A t \in TaskIds : \A k \in 1..Len(AssetsOf(t)) :
        Sent(t, k) =>
            /\ Did("append", t, k) <=> (Followed /\ hin.st2 \in 200..299)
            /\ (~hin.err1 /\ hin.st1 /= 302) =>
                (FetchOutcome(hin) = "status1" /\ ~Did("append", t, k))
            /\ (Followed /\ hin.st2 \notin 200..299) =>
                (FetchOutcome(hin) = "status2" /\ ~Did("append", t, k))

\* C12, amended: the asset is recorded exactly when the first request is
\* answered 302 with a Location the second request can be built from, the
\* second one is answered 200 and the body is copied without error; another
\* first status is an unexpected status, a second status other than 200 (other
\* 2xx included) an HTTP error, and every asset not recorded is warned about.
C12_RecordedIff200Copied ==
    \A t \in TaskIds : \A k \in 1..Len(AssetsOf(t)) :
        Sent(t, k) =>
            /\ Did("append", t, k) <=>
                (Followed /\ hin.st2 = 200 /\ ~hin.cpErr)
            /\ Did("append", t, k) <=> ~Did("warn", t, k)
            /\ Did("append", t, k) =>
                /\ InSeq(PathOf(t, k), binPaths)
                /\ files[PathOf(t, k)].st = "full"
            /\ (~hin.err1 /\ hin.st1 /= 302) =>
                (FetchOutcome(hin) = "status1" /\ ~Did("append", t, k))
            /\ (Followed /\ hin.st2 /= 200) =>
                (FetchOutcome(hin) = "status2" /\ ~Did("append", t, k))

C12_Witness ==
    \E t \in TaskIds :
        /\ Sent(t, 1)
        /\ Followed
        /\ hin.st2 = 204
        /\ Did("warn", t, 1)
        /\ ~Did("append", t, 1)

\* C13 as claimed: an asset whose download failed leaves its path as it was
\* (absent if it was absent, the earlier file if there was one), and a path a
\* task records refers to a file holding the whole body of a download.
C13_FailureLeavesPathAlone ==
    \A t \in TaskIds : \A k \in 1..Len(AssetsOf(t)) :
        /\ (Did("warn", t, k) /\ Did("attempt", t, k)) =>
            IF Did("present", t, k)
            THEN /\ PathOf(t, k) \in DOMAIN files
                 /\ files[PathOf(t, k)].by /= t
            ELSE PathOf(t, k) \notin DOMAIN files
        /\ Did("append", t, k) =>
            /\ PathOf(t, k) \in DOMAIN files
            /\ files[PathOf(t, k)].st = "full"

\* the part of C13 about recorded paths, on its own
C13_RecordedFilesComplete ==
    \A t \in TaskIds : \A k \in 1..Len(AssetsOf(t)) :
        Did("append", t, k) =>
            /\ PathOf(t, k) \in DOMAIN files
            /\ files[PathOf(t, k)].st = "full"

\* C14 as claimed: in a call with pairwise distinct well-formed identifiers
\* no two tasks use the same file path, so none creates, writes or tests for
\* existence a file another one uses, and none records a file another wrote.
Distinct(seq) == \A a, b \in 1..Len(seq) : seq[a] = seq[b] => a = b
Resolved(t) == tasks[t].pc /= "start" /\ Usable(t)

C14_DistinctReposDistinctPaths ==
    (WellFormed /\ Distinct(userRepos)) =>
        \A t \in Mine : \A u \in Mine \ {t} :
            (Resolved(t) /\ Resolved(u)) =>
                \A k \in 1..Len(AssetsOf(t)) :
                    /\ \A j \in 1..Len(AssetsOf(u)) : PathOf(t, k) /= PathOf(u, j)
                    /\ Did("append", t, k) => files[PathOf(t, k)].by = t

\* the second half of C14 on its own: a recorded file was written by the task
\* that records it
C14_RecordsOwnFile ==
    (callNo = 1 /\ WellFormed /\ Distinct(userRepos)) =>
        \A t \in Mine : \A k \in 1..Len(AssetsOf(t)) :
            Did("append", t, k) => files[PathOf(t, k)].by = t

====
